---- MODULE Spec2Model ----
(***************************************************************************)
(* Model of generate_chart (src/src/submission/tools/chart.py).            *)
(*                                                                         *)
(* One call is a straight line of statements; the model gives each         *)
(* statement group its own action and lets the caller issue a bounded      *)
(* sequence of calls, so that what one call leaves behind in the process   *)
(* (seaborn theme, rcParams font size, open pyplot figures) is visible to  *)
(* the next.                                                               *)
(*                                                                         *)
(* Python values are tagged records so that values of different Python     *)
(* types can be compared.  Text is a TLA+ string; the one place that looks *)
(* inside a string (str.capitalize) goes through a character table.        *)
(*                                                                         *)
(* Library calls made on the way to the upload (json.loads, pd.DataFrame,  *)
(* seaborn, pyplot) are modelled as returning normally.  The two places    *)
(* where the source itself raises or catches are modelled as such: the     *)
(* else-branch of the dispatch and the try/except around upload_fileobj.   *)
(***************************************************************************)
EXTENDS Integers, Sequences, FiniteSets, TLC

(***************************************************************************)
(* Bounds                                                                  *)
(***************************************************************************)
\* number of generate_chart calls in one behaviour
MaxCalls == 2

(***************************************************************************)
(* Python values                                                           *)
(***************************************************************************)
None == [t |-> "None"]
Txt(s) == [t |-> "str", v |-> s]
Num(i) == [t |-> "int", v |-> i]
Bool(b) == [t |-> "bool", v |-> b]
Tup(a) == [t |-> "tuple", v |-> a]
Dict(d) == [t |-> "dict", v |-> d]

\* Python truthiness, as used by `if v:` / `v if v else ...` / `not v`
Truthy(v) ==
    CASE v.t = "None"  -> FALSE
      [] v.t = "str"   -> v.v # ""
      [] v.t = "int"   -> v.v # 0
      [] v.t = "bool"  -> v.v
      [] v.t = "tuple" -> v.v # <<>>

\* the text an f-string or a label call renders for a str value
TextOf(v) == v.v

EmptyDict == [k \in {} |-> None]

(***************************************************************************)
(* Lines 61-81: the options record                                         *)
(***************************************************************************)
default_config ==
    [ title         |-> None,
      figsize       |-> Tup(<<10, 6>>),
      palette       |-> Txt("deep"),
      hue           |-> None,
      style         |-> None,
      orientation   |-> Txt("v"),
      bins          |-> Num(30),
      aggregate     |-> Txt("mean"),
      error_bars    |-> Bool(FALSE),
      legend        |-> Bool(TRUE),
      grid          |-> Bool(TRUE),
      rotate_labels |-> Num(0),
      font_size     |-> Num(10),
      theme         |-> Txt("darkgrid") ]

\* {**a, **b} with the operands swapped: the defaults win over the caller
MergeDefaultsWin(a, b) ==
    [k \in (DOMAIN a) \cup (DOMAIN b) |-> IF k \in DOMAIN a THEN a[k] ELSE b[k]]

\* {**a, **b}: every key of either mapping, b's value where both have the key
Merge(a, b) ==
    [k \in (DOMAIN a) \cup (DOMAIN b) |-> IF k \in DOMAIN b THEN b[k] ELSE a[k]]

(***************************************************************************)
(* Inputs of a call                                                        *)
(***************************************************************************)
\* line 15: the nine values of the Literal
SupportedTypes ==
    {"scatter", "line", "bar", "box", "violin", "heatmap", "pie", "histogram", "kde"}

\* values outside the Literal; the comparison of lines 95-184 is exact, so a
\* differently cased tag is unsupported too
UnsupportedTypes == {"area", "Pie"}

ChartTypeInputs == SupportedTypes \cup UnsupportedTypes

DataJsonInputs == {"[{\"month\": 1, \"sales\": 2, \"g\": 0}]"}
FilenameInputs == {"a.png", "out/b.png"}
XAxisInputs == {Txt("day")}
YAxisInputs == {None, Txt(""), Txt("sales")}

\* values a caller may give a key, all different from the key's default;
\* "alpha" is a key the docstring does not list
Overrides ==
    [ title         |-> {Txt(""), Txt("Sales")},
      figsize       |-> {Tup(<<8, 4>>)},
      palette       |-> {Txt("muted")},
      hue           |-> {Txt("g")},
      style         |-> {Txt("g")},
      orientation   |-> {Txt("h")},
      bins          |-> {Num(5)},
      aggregate     |-> {Txt("sum")},
      error_bars    |-> {Bool(TRUE)},
      legend        |-> {Bool(FALSE)},
      grid          |-> {Bool(FALSE)},
      rotate_labels |-> {Num(45)},
      font_size     |-> {Num(14)},
      theme         |-> {Txt("whitegrid")},
      alpha         |-> {Num(1)} ]

ConfigKeys == DOMAIN Overrides

\* the mappings a caller may pass: the empty one, every mapping of one key,
\* theme and font size together, and one that overrides every key
ThemeAndFontSize == [theme |-> Txt("whitegrid"), font_size |-> Num(14)]
AllOverridden ==
    [k \in ConfigKeys |-> IF k = "title" THEN Txt("Sales") ELSE CHOOSE v \in Overrides[k] : TRUE]
ConfigDicts ==
    {EmptyDict, ThemeAndFontSize, AllOverridden}
      \cup UNION { {[j \in {k} |-> v] : v \in Overrides[k]} : k \in ConfigKeys }

\* line 20: config is a mapping or None
ConfigInputs == {None} \cup {Dict(d) : d \in ConfigDicts}

\* what upload_fileobj may do: return, or raise an Exception with this text
UploadErrors == {"Access Denied", "Connect timeout"}

(***************************************************************************)
(* Lines 95-194: the plotting procedures, one operator per branch.  Each   *)
(* yields the library calls the branch makes, with their arguments.        *)
(***************************************************************************)
\* 'sd' if config['error_bars'] else None
ErrorBar(config) == IF Truthy(config.error_bars) THEN Txt("sd") ELSE None

\* sns.color_palette(name)
ColorPalette(name) == [proc |-> "sns.color_palette", palette |-> name]

\* df[col]
Column(df, col) == [of |-> df, column |-> col]

ScatterCalls(df, x_axis, y_axis, config) ==
    << [proc |-> "sns.scatterplot", data |-> df, x |-> x_axis, y |-> y_axis,
        hue |-> config.hue, style |-> config.style, palette |-> config.palette] >>

LineCalls(df, x_axis, y_axis, config) ==
    << [proc |-> "sns.lineplot", data |-> df, x |-> x_axis, y |-> y_axis,
        hue |-> config.hue, style |-> config.style, palette |-> config.palette,
        errorbar |-> ErrorBar(config)] >>

BarCalls(df, x_axis, y_axis, config) ==
    << [proc |-> "sns.barplot", data |-> df, x |-> x_axis, y |-> y_axis,
        hue |-> config.hue, palette |-> config.palette,
        errorbar |-> ErrorBar(config), estimator |-> config.aggregate] >>

BoxCalls(df, x_axis, y_axis, config) ==
    << [proc |-> "sns.boxplot", data |-> df, x |-> x_axis, y |-> y_axis,
        hue |-> config.hue, palette |-> config.palette] >>

ViolinCalls(df, x_axis, y_axis, config) ==
    << [proc |-> "sns.violinplot", data |-> df, x |-> x_axis, y |-> y_axis,
        hue |-> config.hue, palette |-> config.palette] >>

\* pd.pivot_table(...) feeds sns.heatmap(...)
PivotCall(df, x_axis, y_axis, config) ==
    [proc |-> "pd.pivot_table", data |-> df, values |-> y_axis, index |-> x_axis,
     columns |-> IF Truthy(config.hue) THEN config.hue ELSE None,
     aggfunc |-> config.aggregate]

HeatmapCalls(df, x_axis, y_axis, config) ==
    << PivotCall(df, x_axis, y_axis, config),
       [proc |-> "sns.heatmap", data |-> PivotCall(df, x_axis, y_axis, config),
        cmap |-> config.palette, annot |-> Bool(TRUE), fmt |-> Txt(".2f")] >>

PieCalls(df, x_axis, y_axis, config) ==
    << [proc |-> "plt.pie", data |-> Column(df, y_axis), labels |-> Column(df, x_axis),
        autopct |-> Txt("%1.1f%%"), colors |-> ColorPalette(config.palette)] >>

HistogramCalls(df, x_axis, y_axis, config) ==
    << [proc |-> "sns.histplot", data |-> df, x |-> x_axis,
        hue |-> config.hue, bins |-> config.bins, palette |-> config.palette] >>

KdeCalls(df, x_axis, y_axis, config) ==
    << [proc |-> "sns.kdeplot", data |-> df, x |-> x_axis,
        hue |-> config.hue, palette |-> config.palette] >>

\* the outcome of the if/elif chain: the calls made, or the raise of line 194
Plotted(calls) == [raised |-> FALSE, calls |-> calls]
RaiseValueError(msg) == [raised |-> TRUE, calls |-> <<>>, type |-> "ValueError", msg |-> msg]

\* the chain without its else branch: an unknown tag falls through unplotted
DispatchNoElse(chart_type, df, x_axis, y_axis, config) ==
    CASE chart_type = "scatter"   -> Plotted(ScatterCalls(df, x_axis, y_axis, config))
      [] chart_type = "line"      -> Plotted(LineCalls(df, x_axis, y_axis, config))
      [] chart_type = "bar"       -> Plotted(BarCalls(df, x_axis, y_axis, config))
      [] chart_type = "box"       -> Plotted(BoxCalls(df, x_axis, y_axis, config))
      [] chart_type = "violin"    -> Plotted(ViolinCalls(df, x_axis, y_axis, config))
      [] chart_type = "heatmap"   -> Plotted(HeatmapCalls(df, x_axis, y_axis, config))
      [] chart_type = "pie"       -> Plotted(PieCalls(df, x_axis, y_axis, config))
      [] chart_type = "histogram" -> Plotted(HistogramCalls(df, x_axis, y_axis, config))
      [] chart_type = "kde"       -> Plotted(KdeCalls(df, x_axis, y_axis, config))
      [] OTHER                    -> Plotted(<<>>)

\* the chain with the bodies of two branches exchanged
DispatchBoxViolinSwapped(chart_type, df, x_axis, y_axis, config) ==
    CASE chart_type = "scatter"   -> Plotted(ScatterCalls(df, x_axis, y_axis, config))
      [] chart_type = "line"      -> Plotted(LineCalls(df, x_axis, y_axis, config))
      [] chart_type = "bar"       -> Plotted(BarCalls(df, x_axis, y_axis, config))
      [] chart_type = "box"       -> Plotted(ViolinCalls(df, x_axis, y_axis, config))
      [] chart_type = "violin"    -> Plotted(BoxCalls(df, x_axis, y_axis, config))
      [] chart_type = "heatmap"   -> Plotted(HeatmapCalls(df, x_axis, y_axis, config))
      [] chart_type = "pie"       -> Plotted(PieCalls(df, x_axis, y_axis, config))
      [] chart_type = "histogram" -> Plotted(HistogramCalls(df, x_axis, y_axis, config))
      [] chart_type = "kde"       -> Plotted(KdeCalls(df, x_axis, y_axis, config))
      [] OTHER -> RaiseValueError("Unsupported chart type: " \o chart_type)

\* lines 95-194
Dispatch(chart_type, df, x_axis, y_axis, config) ==
    CASE chart_type = "scatter"   -> Plotted(ScatterCalls(df, x_axis, y_axis, config))
      [] chart_type = "line"      -> Plotted(LineCalls(df, x_axis, y_axis, config))
      [] chart_type = "bar"       -> Plotted(BarCalls(df, x_axis, y_axis, config))
      [] chart_type = "box"       -> Plotted(BoxCalls(df, x_axis, y_axis, config))
      [] chart_type = "violin"    -> Plotted(ViolinCalls(df, x_axis, y_axis, config))
      [] chart_type = "heatmap"   -> Plotted(HeatmapCalls(df, x_axis, y_axis, config))
      [] chart_type = "pie"       -> Plotted(PieCalls(df, x_axis, y_axis, config))
      [] chart_type = "histogram" -> Plotted(HistogramCalls(df, x_axis, y_axis, config))
      [] chart_type = "kde"       -> Plotted(KdeCalls(df, x_axis, y_axis, config))
      [] OTHER -> RaiseValueError("Unsupported chart type: " \o chart_type)

(***************************************************************************)
(* Lines 196-204: title and axis labels                                    *)
(***************************************************************************)
LowerAlpha == << "a", "b", "c", "d", "e", "f", "g", "h", "i", "j", "k", "l", "m",
                 "n", "o", "p", "q", "r", "s", "t", "u", "v", "w", "x", "y", "z" >>
UpperAlpha == << "A", "B", "C", "D", "E", "F", "G", "H", "I", "J", "K", "L", "M",
                 "N", "O", "P", "Q", "R", "S", "T", "U", "V", "W", "X", "Y", "Z" >>

Upper(c) == IF \E i \in 1..26 : LowerAlpha[i] = c
            THEN UpperAlpha[CHOOSE i \in 1..26 : LowerAlpha[i] = c] ELSE c
Lower(c) == IF \E i \in 1..26 : UpperAlpha[i] = c
            THEN LowerAlpha[CHOOSE i \in 1..26 : UpperAlpha[i] = c] ELSE c

\* the characters of the chart-type strings the model uses
Chars(s) ==
    CASE s = "scatter"   -> << "s", "c", "a", "t", "t", "e", "r" >>
      [] s = "line"      -> << "l", "i", "n", "e" >>
      [] s = "bar"       -> << "b", "a", "r" >>
      [] s = "box"       -> << "b", "o", "x" >>
      [] s = "violin"    -> << "v", "i", "o", "l", "i", "n" >>
      [] s = "heatmap"   -> << "h", "e", "a", "t", "m", "a", "p" >>
      [] s = "pie"       -> << "p", "i", "e" >>
      [] s = "histogram" -> << "h", "i", "s", "t", "o", "g", "r", "a", "m" >>
      [] s = "kde"       -> << "k", "d", "e" >>
      [] s = "area"      -> << "a", "r", "e", "a" >>
      [] s = "Pie"       -> << "P", "i", "e" >>

RECURSIVE Join(_)
Join(cs) == IF cs = <<>> THEN "" ELSE Head(cs) \o Join(Tail(cs))

\* str.capitalize(): first character upper-cased, the rest lower-cased
Capitalize(s) ==
    LET cs == Chars(s)
    IN  IF cs = <<>> THEN ""
        ELSE Join(<<Upper(Head(cs))>> \o [i \in 1..(Len(cs) - 1) |-> Lower(cs[i + 1])])

\* the title without the capitalize() call
TitleTextRaw(chart_type, x_axis, y_axis, config) ==
    IF Truthy(config.title)
    THEN TextOf(config.title)
    ELSE chart_type \o " Chart: "
           \o (IF Truthy(y_axis) THEN TextOf(y_axis) ELSE "")
           \o " vs " \o TextOf(x_axis)

\* lines 197-200: the argument of plt.title
TitleText(chart_type, x_axis, y_axis, config) ==
    IF Truthy(config.title)
    THEN TextOf(config.title)
    ELSE Capitalize(chart_type) \o " Chart: "
           \o (IF Truthy(y_axis) THEN TextOf(y_axis) ELSE "")
           \o " vs " \o TextOf(x_axis)

\* a figure as plt.subplots returns it; Unset marks what pyplot was not asked to set
Unset == [t |-> "unset"]
NewFigure(figsize) ==
    [ figsize |-> figsize, plots |-> <<>>, title |-> Unset, xlabel |-> Unset,
      ylabel |-> Unset, xticks_rotation |-> Unset, grid |-> Unset,
      legend_removed |-> FALSE, tight_layout |-> FALSE ]

\* lines 196-218 applied to the current figure
Customize(fig, chart_type, x_axis, y_axis, config) ==
    [ fig EXCEPT
        !.title = Txt(TitleText(chart_type, x_axis, y_axis, config)),
        !.xlabel = x_axis,
        !.ylabel = IF Truthy(y_axis) THEN y_axis ELSE @,
        !.xticks_rotation = IF Truthy(config.rotate_labels) THEN config.rotate_labels ELSE @,
        !.grid = config.grid,
        !.legend_removed = ~Truthy(config.legend),
        !.tight_layout = TRUE ]

(***************************************************************************)
(* Lines 228-239: the upload target and the two return values              *)
(***************************************************************************)
bucket_name == "gdsc-bucket-891377155936"

\* the address built from the bucket alone, the key left out
S3UrlNoKey(bucket, filename) == "https://" \o bucket \o ".s3.amazonaws.com/"

\* line 236
S3Url(bucket, filename) == "https://" \o bucket \o ".s3.amazonaws.com/" \o filename

\* the handler dropping the exception text
ErrorStringNoText(e) == "An error occurred: "

\* line 239
ErrorString(e) == "An error occurred: " \o e

(***************************************************************************)
(* State                                                                   *)
(***************************************************************************)
VARIABLES
    calls,        \* number of calls issued so far
    pc,           \* the statement group the current call executes next
    chart_type, data_json, filename, x_axis, y_axis,   \* parameters of the call
    config,       \* the local name `config`: None or a reference to a mapping
    heap,         \* the mapping objects: the caller's, and those the call creates
    config0,      \* what the caller's argument held when the call was made
    entry,        \* the plotting library's state when the call was made
    df,           \* the DataFrame of line 85
    theme,        \* seaborn's process-wide style
    font_size,    \* plt.rcParams['font.size']
    figures,      \* pyplot's open figures, the current one last
    plotted,      \* plotting-library calls made by the current call
    img_data,     \* the BytesIO of line 221
    uploads,      \* upload_fileobj calls made by the current call
    outcome,      \* how the current call ended
    trace         \* statement groups the current call has executed, in order

vars == << calls, pc, chart_type, data_json, filename, x_axis, y_axis, config, heap,
           config0, entry, df, theme, font_size, figures, plotted, img_data,
           uploads, outcome, trace >>

params == << chart_type, data_json, filename, x_axis, y_axis, config0, entry >>
process_state == << theme, font_size, figures >>

ObjIds == {"arg", "empty", "merged"}
Unallocated == [t |-> "unallocated"]
Ref(o) == [t |-> "ref", v |-> o]

Running == [kind |-> "running"]
Returned(v) == [kind |-> "return", value |-> v]
Raised(type, msg) == [kind |-> "raise", type |-> type, msg |-> msg]

\* the options record the call works with once line 81 has run
Options == heap[config.v].v

\* the statement group that follows `step` in the function body, with no
\* serialization before the upload
AfterSkipsSave(step) ==
    CASE step = "call"      -> "merge"
      [] step = "merge"     -> "parse"
      [] step = "parse"     -> "set_theme"
      [] step = "set_theme" -> "subplots"
      [] step = "subplots"  -> "plot"
      [] step = "plot"      -> "customize"
      [] step = "customize" -> "close"
      [] step = "savefig"   -> "close"
      [] step = "close"     -> "upload"
      [] step = "upload"    -> "done"

\* the statement group that follows `step` in the function body
After(step) ==
    CASE step = "call"      -> "merge"
      [] step = "merge"     -> "parse"
      [] step = "parse"     -> "set_theme"
      [] step = "set_theme" -> "subplots"
      [] step = "subplots"  -> "plot"
      [] step = "plot"      -> "customize"
      [] step = "customize" -> "savefig"
      [] step = "savefig"   -> "close"
      [] step = "close"     -> "upload"
      [] step = "upload"    -> "done"

\* line 81 writing the merge into the mapping it read the overrides from
MergedObjectInPlace(src) == src

\* line 81: the dict display is a new object
MergedObject(src) == "merged"

\* the style taken from the defaults instead of the merged record
StyleArgFromDefaults(cfg) == default_config.theme

\* line 88: style=config['theme']
StyleArg(cfg) == cfg.theme

\* line 89: config['font_size']
FontSizeArg(cfg) == cfg.font_size

Init ==
    /\ calls = 0
    /\ pc = "idle"
    /\ chart_type = "" /\ data_json = "" /\ filename = ""
    /\ x_axis = None /\ y_axis = None
    /\ config = None
    /\ config0 = None
    /\ entry = None
    /\ heap = [o \in ObjIds |-> Unallocated]
    /\ df = None
    /\ theme = None
    /\ font_size = Num(10)
    /\ figures = <<>>
    /\ plotted = <<>>
    /\ img_data = None
    /\ uploads = <<>>
    /\ outcome = Running
    /\ trace = <<>>

\* the caller invokes generate_chart (lines 14-21 bind the parameters)
Call ==
    /\ pc = "idle"
    /\ calls < MaxCalls
    /\ \E ct \in ChartTypeInputs, dj \in DataJsonInputs, fn \in FilenameInputs,
          x \in XAxisInputs, y \in YAxisInputs, cfg \in ConfigInputs :
          /\ chart_type' = ct /\ data_json' = dj /\ filename' = fn
          /\ x_axis' = x /\ y_axis' = y
          /\ config0' = cfg
          /\ config' = IF cfg = None THEN None ELSE Ref("arg")
          /\ heap' = [o \in ObjIds |-> IF o = "arg" /\ cfg # None THEN cfg ELSE Unallocated]
    /\ entry' = [theme |-> theme, font_size |-> font_size, open_figures |-> Len(figures)]
    /\ calls' = calls + 1
    /\ pc' = After("call")
    /\ df' = None /\ plotted' = <<>> /\ img_data' = None /\ uploads' = <<>>
    /\ outcome' = Running
    /\ trace' = <<>>
    /\ UNCHANGED process_state

\* lines 61-81
MergeConfig ==
    /\ pc = "merge"
    /\ LET src == IF config = None THEN "empty" ELSE config.v
           h1  == IF config = None THEN [heap EXCEPT !["empty"] = Dict(EmptyDict)] ELSE heap
           dst == MergedObject(src)
       IN  /\ heap' = [h1 EXCEPT ![dst] = Dict(Merge(default_config, h1[src].v))]
           /\ config' = Ref(dst)
    /\ pc' = After("merge")
    /\ trace' = Append(trace, "merge")
    /\ UNCHANGED << calls, params, df, process_state, plotted, img_data, uploads, outcome >>

\* lines 84-85
ParseData ==
    /\ pc = "parse"
    /\ df' = [t |-> "DataFrame", v |-> [t |-> "json", v |-> data_json]]
    /\ pc' = After("parse")
    /\ trace' = Append(trace, "parse")
    /\ UNCHANGED << calls, params, config, heap, process_state, plotted, img_data,
                    uploads, outcome >>

\* lines 88-89
SetTheme ==
    /\ pc = "set_theme"
    /\ theme' = StyleArg(Options)
    /\ font_size' = FontSizeArg(Options)
    /\ pc' = After("set_theme")
    /\ trace' = Append(trace, "set_theme")
    /\ UNCHANGED << calls, params, config, heap, df, figures, plotted, img_data,
                    uploads, outcome >>

\* line 92
CreateFigure ==
    /\ pc = "subplots"
    /\ figures' = Append(figures, NewFigure(Options.figsize))
    /\ pc' = After("subplots")
    /\ trace' = Append(trace, "subplots")
    /\ UNCHANGED << calls, params, config, heap, df, theme, font_size, plotted,
                    img_data, uploads, outcome >>

\* lines 95-194
Plot ==
    /\ pc = "plot"
    /\ LET d == Dispatch(chart_type, df, x_axis, y_axis, Options)
       IN  /\ plotted' = plotted \o d.calls
           /\ figures' = [figures EXCEPT ![Len(figures)].plots = @ \o d.calls]
           /\ IF d.raised
              THEN /\ outcome' = Raised(d.type, d.msg)
                   /\ pc' = "done"
              ELSE /\ outcome' = outcome
                   /\ pc' = After("plot")
    /\ trace' = Append(trace, "plot")
    /\ UNCHANGED << calls, params, config, heap, df, theme, font_size, img_data, uploads >>

\* lines 196-218
CustomizePlot ==
    /\ pc = "customize"
    /\ figures' = [figures EXCEPT
                     ![Len(figures)] = Customize(@, chart_type, x_axis, y_axis, Options)]
    /\ pc' = After("customize")
    /\ trace' = Append(trace, "customize")
    /\ UNCHANGED << calls, params, config, heap, df, theme, font_size, plotted,
                    img_data, uploads, outcome >>

\* lines 220-222
SaveFig ==
    /\ pc = "savefig"
    /\ img_data' = [t |-> "png", dpi |-> 300, bbox_inches |-> "tight",
                    figure |-> figures[Len(figures)]]
    /\ pc' = After("savefig")
    /\ trace' = Append(trace, "savefig")
    /\ UNCHANGED << calls, params, config, heap, df, process_state, plotted, uploads,
                    outcome >>

\* line 223: plt.close() closes the current figure
CloseFigure ==
    /\ pc = "close"
    /\ figures' = SubSeq(figures, 1, Len(figures) - 1)
    /\ pc' = After("close")
    /\ trace' = Append(trace, "close")
    /\ UNCHANGED << calls, params, config, heap, df, theme, font_size, plotted,
                    img_data, uploads, outcome >>

\* lines 226-237, upload_fileobj returning
UploadOk ==
    /\ pc = "upload"
    /\ uploads' = Append(uploads, [body |-> img_data, bucket |-> bucket_name,
                                   key |-> filename, ok |-> TRUE])
    /\ outcome' = Returned(S3Url(bucket_name, filename))
    /\ pc' = After("upload")
    /\ trace' = Append(trace, "upload")
    /\ UNCHANGED << calls, params, config, heap, df, process_state, plotted, img_data >>

\* lines 226-235 and 238-239, upload_fileobj raising
UploadFails ==
    /\ pc = "upload"
    /\ \E e \in UploadErrors :
          /\ uploads' = Append(uploads, [body |-> img_data, bucket |-> bucket_name,
                                         key |-> filename, ok |-> FALSE, error |-> e])
          /\ outcome' = Returned(ErrorString(e))
    /\ pc' = After("upload")
    /\ trace' = Append(trace, "upload")
    /\ UNCHANGED << calls, params, config, heap, df, process_state, plotted, img_data >>

\* the call has returned (lines 237, 239) or raised (line 194): its frame and
\* the objects only the frame referred to are gone; what the process keeps is
\* the plotting library's state
Exit ==
    /\ pc = "done"
    /\ pc' = "idle"
    /\ chart_type' = "" /\ data_json' = "" /\ filename' = ""
    /\ x_axis' = None /\ y_axis' = None
    /\ config' = None /\ config0' = None /\ entry' = None
    /\ heap' = [o \in ObjIds |-> Unallocated]
    /\ df' = None /\ plotted' = <<>> /\ img_data' = None /\ uploads' = <<>>
    /\ outcome' = Running
    /\ trace' = <<>>
    /\ UNCHANGED << calls, process_state >>

Next ==
    \/ Call
    \/ MergeConfig
    \/ ParseData
    \/ SetTheme
    \/ CreateFigure
    \/ Plot
    \/ CustomizePlot
    \/ SaveFig
    \/ CloseFigure
    \/ UploadOk
    \/ UploadFails
    \/ Exit

Spec == Init /\ [][Next]_vars

(***************************************************************************)
(* Claims                                                                  *)
(***************************************************************************)

C2_UnsupportedTypeRaises ==
    (pc # "idle" /\ chart_type \notin {"scatter", "line", "bar", "box", "violin",
                                       "heatmap", "pie", "histogram", "kde"}) =>
        /\ plotted = <<>>
        /\ uploads = <<>>
        /\ outcome.kind # "return"
        /\ pc \notin {"customize", "savefig", "close", "upload"}
        /\ pc = "done" => (outcome.kind = "raise" /\ outcome.type = "ValueError")

C2_Witness ==
    /\ pc = "done" /\ chart_type = "Pie"
    /\ outcome.kind = "raise" /\ outcome.type = "ValueError"
    /\ "plot" \in {trace[i] : i \in DOMAIN trace}

\* C3: when upload_fileobj returns, the call returns exactly
\* 'https://gdsc-bucket-891377155936.s3.amazonaws.com/<filename>', and the
\* image was uploaded to that one bucket under the key <filename>.
C3_SuccessReturnsUrlOfKey ==
    (pc = "done" /\ uploads # <<>> /\ uploads[Len(uploads)].ok) =>
        /\ outcome.kind = "return"
        /\ outcome.value = "https://gdsc-bucket-891377155936.s3.amazonaws.com/" \o filename
        /\ uploads[Len(uploads)].bucket = "gdsc-bucket-891377155936"
        /\ uploads[Len(uploads)].key = filename

C3_Witness ==
    /\ pc = "done" /\ filename = "out/b.png"
    /\ Len(uploads) = 1 /\ uploads[1].ok
    /\ outcome.kind = "return"

\* C4: a call with a supported chart_type has invoked no plotting procedure
\* before its dispatch and, from the dispatch on, exactly the procedure of its
\* tag (pivot_table followed by heatmap for 'heatmap'), once.
C4_OneProcedureOfTheTag ==
    (pc # "idle" /\ chart_type \in {"scatter", "line", "bar", "box", "violin",
                                    "heatmap", "pie", "histogram", "kde"}) =>
        LET expected ==
              CASE chart_type = "scatter"   -> << "sns.scatterplot" >>
                [] chart_type = "line"      -> << "sns.lineplot" >>
                [] chart_type = "bar"       -> << "sns.barplot" >>
                [] chart_type = "box"       -> << "sns.boxplot" >>
                [] chart_type = "violin"    -> << "sns.violinplot" >>
                [] chart_type = "heatmap"   -> << "pd.pivot_table", "sns.heatmap" >>
                [] chart_type = "pie"       -> << "plt.pie" >>
                [] chart_type = "histogram" -> << "sns.histplot" >>
                [] chart_type = "kde"       -> << "sns.kdeplot" >>
            invoked == [i \in DOMAIN plotted |-> plotted[i].proc]
        IN  IF "plot" \in {trace[i] : i \in DOMAIN trace}
            THEN invoked = expected
            ELSE invoked = <<>>

C4_Witness ==
    /\ pc = "done" /\ chart_type = "heatmap"
    /\ Len(plotted) = 2 /\ plotted[2].proc = "sns.heatmap"
    /\ outcome.kind = "return"

\* C5: the options record of a call holds, for every key the caller supplied,
\* the caller's value, and for every documented key the caller did not supply,
\* the documented default; a config of None gives what an empty config gives.
C5_OptionsAreDefaultsOverridden ==
    (pc \notin {"idle", "merge"}) =>
        LET documented ==
              [ title |-> None, figsize |-> Tup(<<10, 6>>), palette |-> Txt("deep"),
                hue |-> None, style |-> None, orientation |-> Txt("v"),
                bins |-> Num(30), aggregate |-> Txt("mean"),
                error_bars |-> Bool(FALSE), legend |-> Bool(TRUE), grid |-> Bool(TRUE),
                rotate_labels |-> Num(0), font_size |-> Num(10),
                theme |-> Txt("darkgrid") ]
            supplied == IF config0 = None THEN EmptyDict ELSE config0.v
        IN  /\ DOMAIN Options = (DOMAIN documented) \cup (DOMAIN supplied)
            /\ \A k \in DOMAIN supplied : Options[k] = supplied[k]
            /\ \A k \in (DOMAIN documented) \ (DOMAIN supplied) : Options[k] = documented[k]

C5_Witness ==
    /\ pc = "done"
    /\ config0 # None /\ DOMAIN config0.v = {"bins"}
    /\ Options.bins = Num(5) /\ Options.theme = Txt("darkgrid")

C7_NoFigureLeftOpen ==
    (pc = "done") => Len(figures) = entry.open_figures

\* C8: the statement groups of a call run in the one order set theme, create
\* figure, plot, customize, serialize, close, upload; the upload is attempted
\* at most once, and only with the serialized image of the closed figure.
C8_StepsInOrderOneUpload ==
    LET order == << "merge", "parse", "set_theme", "subplots", "plot", "customize",
                    "savefig", "close", "upload" >>
    IN  /\ Len(trace) <= Len(order)
        /\ \A i \in DOMAIN trace : trace[i] = order[i]
        /\ Len(uploads) <= 1
        /\ uploads # <<>> =>
              /\ img_data # None
              /\ uploads[1].body = img_data
              /\ pc = "done"

C8_Witness ==
    /\ pc = "done"
    /\ Len(trace) = 9 /\ trace[9] = "upload"
    /\ Len(uploads) = 1 /\ ~uploads[1].ok

\* C9: the serialized figure of a supported chart type carries the caller's
\* title when that is non-empty and otherwise
\* '<Type> Chart: <y_axis or nothing> vs <x_axis>'; its x label is x_axis; its
\* y label is y_axis when y_axis is non-empty and is not set otherwise.
C9_TitleAndLabels ==
    (img_data # None) =>
        LET supplied == IF config0 = None THEN EmptyDict ELSE config0.v
            capitalized ==
              CASE chart_type = "scatter"   -> "Scatter"
                [] chart_type = "line"      -> "Line"
                [] chart_type = "bar"       -> "Bar"
                [] chart_type = "box"       -> "Box"
                [] chart_type = "violin"    -> "Violin"
                [] chart_type = "heatmap"   -> "Heatmap"
                [] chart_type = "pie"       -> "Pie"
                [] chart_type = "histogram" -> "Histogram"
                [] chart_type = "kde"       -> "Kde"
            y_text == IF y_axis = None THEN "" ELSE y_axis.v
            generated == capitalized \o " Chart: " \o y_text \o " vs " \o x_axis.v
            fig == img_data.figure
        IN  /\ fig.title = IF "title" \in DOMAIN supplied /\ supplied.title.v # ""
                           THEN supplied.title ELSE Txt(generated)
            /\ fig.xlabel = x_axis
            /\ fig.ylabel # Unset => (y_axis # None /\ fig.ylabel = y_axis)
            /\ (y_axis # None /\ y_axis.v # "") => fig.ylabel = y_axis

C9_Witness ==
    /\ pc = "done" /\ chart_type = "histogram" /\ y_axis = None
    /\ x_axis = Txt("day")
    /\ img_data # None
    /\ img_data.figure.title = Txt("Histogram Chart:  vs day")
    /\ img_data.figure.ylabel = Unset

\* C10: throughout a call and at its end the caller's mapping holds exactly
\* what it held when the call was made, and the merged options are a different
\* object.
C10_CallerConfigUntouched ==
    (pc # "idle" /\ config0 # None) =>
        /\ heap["arg"] = config0
        /\ (pc # "merge") => (config.v # "arg")

C10_Witness ==
    /\ pc = "done"
    /\ config0 # None /\ DOMAIN config0.v = {"legend"}
    /\ heap["arg"] = config0
    /\ DOMAIN Options # DOMAIN config0.v

====
